---- MODULE Spec2Model ----
(***************************************************************************)
(* A model of the path-handle layer of rust-vfs (src/src/lib.rs): VfsError *)
(* and its context chaining, the VFS backend contract, and VPath with its  *)
(* primitive and composite operations.  The in-memory backend behind the   *)
(* VFS trait (memory.rs) is modelled as a table keyed by full path.        *)
(*                                                                         *)
(* A path is a sequence of one-character strings, so that join, the slice  *)
(* arithmetic of create_dir_all and the rendering of errors are computed   *)
(* character by character as the code does.  Indices in the operators      *)
(* that model Rust code are 0-based like the code's.                       *)
(***************************************************************************)
EXTENDS Integers, Sequences, FiniteSets, TLC

\* ------------------------------------------------------------------ bounds
\* Most entries (the root not counted) the backend holds at a time, and most paths
\* the history of created paths holds.
MaxNodes == 3
\* Most bytes a file holds.
MaxLen == 2
\* Most readers and writers (together) open at a time.
MaxOpen == 2
\* Threads that run a composite operation at the same time.
NumActors == 2

\* Segment names and byte values the inputs are drawn from.
Segs == {"a", "b"}
Bytes == {1, 2}

\* --------------------------------------------------------- strings, paths
Chr(s) == <<s>>
SLASH == "/"
\* The grave accent that quotes the path in FileNotFound's message.
BACKQUOTE == "grave"
\* VPath::create: the root handle's path is the empty string.
RootPath == <<>>

\* format!("{}/{}", self.path, path)
join(self, path) == self \o <<SLASH>> \o path

\* Rust's s[from..to] and s[from..] (0-based, end exclusive).
Slice(s, from, to) == SubSeq(s, from + 1, to)
SliceFrom(s, from) == SubSeq(s, from + 1, Len(s))

\* str::find(ch): 0-based index of the first occurrence, or -1 for None.
find(s, ch) ==
    IF \E i \in 1..Len(s) : s[i] = ch
    THEN (CHOOSE i \in 1..Len(s) : s[i] = ch /\ \A j \in 1..(i - 1) : s[j] # ch) - 1
    ELSE -1

\* str::rfind(ch): 0-based index of the last occurrence, or -1 for None.
rfind(s, ch) ==
    IF \E i \in 1..Len(s) : s[i] = ch
    THEN (CHOOSE i \in 1..Len(s) : s[i] = ch /\ \A j \in (i + 1)..Len(s) : s[j] # ch) - 1
    ELSE -1

\* The prefixes of a path that end at a segment boundary (the path itself included).
Prefixes(path) ==
    { Slice(path, 0, i) : i \in { j \in 1..Len(path) : j = Len(path) \/ path[j + 1] = SLASH } }

\* The relative paths handed to join: every path of one or two segments over Segs
\* ("a", "a/b", ...) and one of three segments ("a/a/a").
RelPaths ==
    { Chr(s) : s \in Segs } \cup
    { Chr(s) \o <<SLASH>> \o Chr(t) : s, t \in Segs } \cup
    { <<"a", SLASH, "a", SLASH, "a">> }

\* The handles a caller holds: the root handle and root.join(rel).
Handles == {RootPath} \cup { join(RootPath, r) : r \in RelPaths }

\* ------------------------------------------------------------- VfsError
FileNotFound(path) == [kind |-> "FileNotFound", path |-> path]
Other(message) == [kind |-> "Other", message |-> message]
WithContext(context, cause) == [kind |-> "WithContext", context |-> context, cause |-> cause]

Ok(v) == [tag |-> "Ok", val |-> v]
Err(e) == [tag |-> "Err", err |-> e]
\* A panic of the calling thread (an out-of-range slice), not a returned value.
Panic == [tag |-> "Panic"]
Unit == "()"

\* #[error(...)] Display of VfsError, as a sequence of text pieces.
RECURSIVE Display(_)
Display(e) ==
    CASE e.kind = "IoError" -> <<"data store disconnected">>
      [] e.kind = "FileNotFound" ->
            <<"the file or directory ", BACKQUOTE>> \o e.path \o <<BACKQUOTE, " could not be found">>
      [] e.kind = "Other" -> <<"other VFS error: ", e.message>>
      [] e.kind = "WithContext" -> e.context \o <<", cause: ">> \o Display(e.cause)

\* The end of the source() chain.
RECURSIVE Innermost(_)
Innermost(e) == IF e.kind = "WithContext" THEN Innermost(e.cause) ELSE e

\* Number of WithContext frames around the innermost cause.
RECURSIVE Frames(_)
Frames(e) == IF e.kind = "WithContext" THEN 1 + Frames(e.cause) ELSE 0

\* with_context putting the context in the place of the error instead of around it.
with_context_lossy(self, context) ==
    IF self.tag = "Err" THEN Err(Other("context")) ELSE self

\* ResultExt::with_context
with_context(self, context) ==
    IF self.tag = "Err" THEN Err(WithContext(context, self.err)) ELSE self


\* ------------------------------------------- the in-memory backend (VFS)
\* The backend's table: full path -> node.  A node is a Directory or a File
\* with its byte buffer; the root (the empty path) is there from the start.
DirNode == [file_type |-> "Directory", content |-> <<>>]
FileNode(content) == [file_type |-> "File", content |-> content]
EmptyFS == (RootPath :> DirNode)

vfs_exists(files, path) == path \in DOMAIN files

IsDir(files, path) == path \in DOMAIN files /\ files[path].file_type = "Directory"
IsFile(files, path) == path \in DOMAIN files /\ files[path].file_type = "File"

\* The path of the directory holding `path`: everything before the last '/'.
HasParent(path) == rfind(path, SLASH) >= 0
Parent(path) == Slice(path, 0, rfind(path, SLASH))
Name(path) == SliceFrom(path, rfind(path, SLASH) + 1)
\* Walking the segments from the root reaches the directory that holds `path`.
ParentResolves(files, path) == HasParent(path) /\ IsDir(files, Parent(path))

ChildrenOf(files, path) == { q \in DOMAIN files : HasParent(q) /\ Parent(q) = path }
\* p is `path` itself or lies below it.
Below(path, p) ==
    \/ p = path
    \/ Len(p) > Len(path) /\ Slice(p, 0, Len(path) + 1) = path \o <<SLASH>>

Without(files, path) == [q \in DOMAIN files \ {path} |-> files[q]]

\* The child names of a listing in iteration order: the order is the backend's
\* choice, drawn by the caller of this operator as a ranking `ord` of the names.
InOrder(names, ord) == SelectSeq(ord, LAMBDA n : n \in names)

vfs_read_dir(files, path, ord) ==
    IF ~IsDir(files, path) THEN Err(FileNotFound(path))
    ELSE Ok(InOrder({ Name(q) : q \in ChildrenOf(files, path) }, ord))

vfs_create_dir(files, path) ==
    IF ~ParentResolves(files, path) THEN [files |-> files, res |-> Err(FileNotFound(path))]
    ELSE IF vfs_exists(files, path)
    THEN [files |-> files, res |-> Err(Other("already exists"))]
    ELSE [files |-> (path :> DirNode) @@ files, res |-> Ok(Unit)]

\* The reader's value is the copy of the buffer taken by the call.
vfs_open_file(files, path) ==
    IF ~IsFile(files, path) THEN Err(FileNotFound(path))
    ELSE Ok(files[path].content)

\* The writer's value is its cursor position.
vfs_create_file(files, path) ==
    IF IsDir(files, path) THEN [files |-> files, res |-> Err(Other("is a directory"))]
    ELSE IF ~ParentResolves(files, path)
    THEN [files |-> files, res |-> Err(FileNotFound(path))]
    ELSE [files |-> (path :> FileNode(<<>>)) @@ files, res |-> Ok(0)]

vfs_append_file(files, path) ==
    IF IsDir(files, path) THEN [files |-> files, res |-> Err(Other("is a directory"))]
    ELSE IF ~ParentResolves(files, path)
    THEN [files |-> files, res |-> Err(FileNotFound(path))]
    ELSE IF IsFile(files, path)
    THEN [files |-> files, res |-> Ok(Len(files[path].content))]
    ELSE [files |-> (path :> FileNode(<<>>)) @@ files, res |-> Ok(0)]

vfs_metadata(files, path) ==
    IF ~vfs_exists(files, path) THEN Err(FileNotFound(path))
    ELSE Ok([file_type |-> files[path].file_type, len |-> Len(files[path].content)])

vfs_remove_file(files, path) ==
    IF ~vfs_exists(files, path) THEN [files |-> files, res |-> Err(FileNotFound(path))]
    ELSE IF IsDir(files, path) THEN [files |-> files, res |-> Err(Other("is a directory"))]
    ELSE [files |-> Without(files, path), res |-> Ok(Unit)]

\* remove_dir that takes the root like any other empty directory.
vfs_remove_dir_any(files, path) ==
    IF ~vfs_exists(files, path) THEN [files |-> files, res |-> Err(FileNotFound(path))]
    ELSE IF IsFile(files, path) THEN [files |-> files, res |-> Err(Other("not a directory"))]
    ELSE IF ChildrenOf(files, path) # {}
    THEN [files |-> files, res |-> Err(Other("directory is not empty"))]
    ELSE [files |-> Without(files, path), res |-> Ok(Unit)]

vfs_remove_dir(files, path) ==
    IF ~vfs_exists(files, path) THEN [files |-> files, res |-> Err(FileNotFound(path))]
    ELSE IF IsFile(files, path) THEN [files |-> files, res |-> Err(Other("not a directory"))]
    ELSE IF ChildrenOf(files, path) # {}
    THEN [files |-> files, res |-> Err(Other("directory is not empty"))]
    ELSE IF path = RootPath
    THEN [files |-> files, res |-> Err(Other("the root cannot be removed"))]
    ELSE [files |-> Without(files, path), res |-> Ok(Unit)]

\* A write through a writer's cursor: the bytes land at `pos` in the shared
\* buffer, overwriting what is there and zero-filling a gap before them.
Max(a, b) == IF a >= b THEN a ELSE b
write_at(content, pos, buf) ==
    [i \in 1..Max(Len(content), pos + Len(buf)) |->
        IF i > pos /\ i <= pos + Len(buf) THEN buf[i - pos]
        ELSE IF i <= Len(content) THEN content[i]
        ELSE 0]


\* ---------------------------------------------------------------- VPath
\* An operation's outcome: the backend's table afterwards, the value or error
\* returned to the caller, and the backend calls it issued, in order.
Call(prim, path) == [prim |-> prim, path |-> path]
Outcome(files, res, calls) == [files |-> files, res |-> res, calls |-> calls]

\* The format!(...) context of each primitive call site.
Quoted(prefix, path, suffix) == <<prefix>> \o path \o <<suffix>>
ReadDirContext(path) == Quoted("Could not read directory '", path, "'")
CreateDirContext(path) == Quoted("Could not create directory '", path, "'")
OpenFileContext(path) == Quoted("Could not open file '", path, "'")
CreateFileContext(path) == Quoted("Could not create file '", path, "'")
AppendFileContext(path) == Quoted("Could not open file '", path, "' for appending")
RemoveFileContext(path) == Quoted("Could not remove file '", path, "'")
RemoveDirContext(path) == Quoted("Could not remove directory '", path, "'")
MetadataContext(path) == Quoted("Could get metadata for '", path, "'")

\* VPath::read_dir: the child names become handles on parent/name.
MapSeq(s, F(_)) == [i \in 1..Len(s) |-> F(s[i])]
\* read_dir making the children's handles from the root instead of from its own path.
read_dir_rooted(files, path, ord) ==
    LET r == with_context(vfs_read_dir(files, path, ord), ReadDirContext(path))
    IN Outcome(files,
               IF r.tag = "Ok" THEN Ok(MapSeq(r.val, LAMBDA n : join(RootPath, n))) ELSE r,
               <<Call("read_dir", path)>>)

read_dir(files, path, ord) ==
    LET r == with_context(vfs_read_dir(files, path, ord), ReadDirContext(path))
    IN Outcome(files,
               IF r.tag = "Ok" THEN Ok(MapSeq(r.val, LAMBDA n : join(path, n))) ELSE r,
               <<Call("read_dir", path)>>)

create_dir(files, path) ==
    LET b == vfs_create_dir(files, path)
    IN Outcome(b.files, with_context(b.res, CreateDirContext(path)),
               <<Call("create_dir", path)>>)

\* open_file handing the backend's result on as it is.
open_file_raw(files, path) ==
    Outcome(files, vfs_open_file(files, path), <<Call("open_file", path)>>)

open_file(files, path) ==
    Outcome(files, with_context(vfs_open_file(files, path), OpenFileContext(path)),
            <<Call("open_file", path)>>)

\* create_file calling the backend's append_file.
create_file_appending(files, path) ==
    LET b == vfs_append_file(files, path)
    IN Outcome(b.files, with_context(b.res, CreateFileContext(path)),
               <<Call("create_file", path)>>)

create_file(files, path) ==
    LET b == vfs_create_file(files, path)
    IN Outcome(b.files, with_context(b.res, CreateFileContext(path)),
               <<Call("create_file", path)>>)

append_file(files, path) ==
    LET b == vfs_append_file(files, path)
    IN Outcome(b.files, with_context(b.res, AppendFileContext(path)),
               <<Call("append_file", path)>>)

remove_file(files, path) ==
    LET b == vfs_remove_file(files, path)
    IN Outcome(b.files, with_context(b.res, RemoveFileContext(path)),
               <<Call("remove_file", path)>>)

remove_dir(files, path) ==
    LET b == vfs_remove_dir(files, path)
    IN Outcome(b.files, with_context(b.res, RemoveDirContext(path)),
               <<Call("remove_dir", path)>>)

metadata(files, path) ==
    Outcome(files, with_context(vfs_metadata(files, path), MetadataContext(path)),
            <<Call("metadata", path)>>)

exists(files, path) ==
    Outcome(files, vfs_exists(files, path), <<Call("exists", path)>>)

\* create_dir_all with the loop left before the last prefix is handled.
RECURSIVE create_dir_all_loop_early_break(_, _, _, _)
create_dir_all_loop_early_break(files, path, pos, calls) ==
    IF pos > Len(path) THEN Outcome(files, Panic, calls)
    ELSE
    LET it == find(SliceFrom(path, pos), SLASH)
        end == IF it >= 0 THEN it + pos ELSE Len(path)
        directory == Slice(path, 0, end)
        found == vfs_exists(files, directory)
        b == IF found THEN [files |-> files, res |-> Ok(Unit)]
             ELSE vfs_create_dir(files, directory)
        issued == calls \o <<Call("exists", directory)>>
                        \o (IF found THEN <<>> ELSE <<Call("create_dir", directory)>>)
    IN  IF end = Len(path) THEN Outcome(files, Ok(Unit), calls)
        ELSE IF b.res.tag = "Err" THEN Outcome(b.files, b.res, issued)
        ELSE create_dir_all_loop_early_break(b.files, path, end + 1, issued)

\* VPath::create_dir_all, from the top of one loop iteration with its `pos`.
\* path[pos..] panics when pos is past the end of the string.
RECURSIVE create_dir_all_loop(_, _, _, _)
create_dir_all_loop(files, path, pos, calls) ==
    IF pos > Len(path) THEN Outcome(files, Panic, calls)
    ELSE
    LET it == find(SliceFrom(path, pos), SLASH)
        end == IF it >= 0 THEN it + pos ELSE Len(path)
        directory == Slice(path, 0, end)
        found == vfs_exists(files, directory)
        b == IF found THEN [files |-> files, res |-> Ok(Unit)]
             ELSE vfs_create_dir(files, directory)
        issued == calls \o <<Call("exists", directory)>>
                        \o (IF found THEN <<>> ELSE <<Call("create_dir", directory)>>)
    IN  IF b.res.tag = "Err" THEN Outcome(b.files, b.res, issued)
        ELSE IF end = Len(path) THEN Outcome(b.files, Ok(Unit), issued)
        ELSE create_dir_all_loop(b.files, path, end + 1, issued)

create_dir_all(files, path) == create_dir_all_loop(files, path, 1, <<>>)

\* VPath::remove_dir_all; remove_children is its `for child in ...` loop over
\* the handles the listing gave, from the i-th on.
RECURSIVE remove_dir_all(_, _, _), remove_children(_, _, _, _, _)

\* remove_dir_all without the early return for a path that does not exist.
remove_dir_all_unchecked(files, path, ord) ==
    LET e == exists(files, path)
        l == read_dir(files, path, ord)
    IN  IF l.res.tag = "Err" THEN Outcome(files, l.res, e.calls \o l.calls)
        ELSE
        LET c == remove_children(files, l.res.val, 1, ord, e.calls \o l.calls)
        IN  IF c.res.tag = "Err" THEN c
            ELSE LET d == remove_dir(c.files, path)
                 IN Outcome(d.files, d.res, c.calls \o d.calls)

\* remove_dir_all taking a listing that failed for an empty one.
remove_dir_all_unlisted(files, path, ord) ==
    LET e == exists(files, path)
    IN  IF ~e.res THEN Outcome(files, Ok(Unit), e.calls)
        ELSE
        LET l == read_dir(files, path, ord)
            children == IF l.res.tag = "Err" THEN <<>> ELSE l.res.val
            c == remove_children(files, children, 1, ord, e.calls \o l.calls)
        IN  IF c.res.tag = "Err" THEN c
            ELSE LET d == remove_dir(c.files, path)
                 IN Outcome(d.files, d.res, c.calls \o d.calls)

\* The loop over the children with the two match arms swapped.
remove_children_swapped(files, children, i, ord, calls) ==
    IF i > Len(children) THEN Outcome(files, Ok(Unit), calls)
    ELSE
    LET child == children[i]
        m == metadata(files, child)
    IN  IF m.res.tag = "Err" THEN Outcome(files, m.res, calls \o m.calls)
        ELSE
        LET r == IF m.res.val.file_type = "File" THEN remove_dir_all(files, child, ord)
                 ELSE remove_file(files, child)
        IN  IF r.res.tag = "Err" THEN Outcome(r.files, r.res, calls \o m.calls \o r.calls)
            ELSE remove_children(r.files, children, i + 1, ord, calls \o m.calls \o r.calls)

remove_dir_all(files, path, ord) ==
    LET e == exists(files, path)
    IN  IF ~e.res THEN Outcome(files, Ok(Unit), e.calls)
        ELSE
        LET l == read_dir(files, path, ord)
        IN  IF l.res.tag = "Err" THEN Outcome(files, l.res, e.calls \o l.calls)
            ELSE
            LET c == remove_children(files, l.res.val, 1, ord, e.calls \o l.calls)
            IN  IF c.res.tag = "Err" THEN c
                ELSE LET d == remove_dir(c.files, path)
                     IN Outcome(d.files, d.res, c.calls \o d.calls)

remove_children(files, children, i, ord, calls) ==
    IF i > Len(children) THEN Outcome(files, Ok(Unit), calls)
    ELSE
    LET child == children[i]
        m == metadata(files, child)
    IN  IF m.res.tag = "Err" THEN Outcome(files, m.res, calls \o m.calls)
        ELSE
        LET r == IF m.res.val.file_type = "File" THEN remove_file(files, child)
                 ELSE remove_dir_all(files, child, ord)
        IN  IF r.res.tag = "Err" THEN Outcome(r.files, r.res, calls \o m.calls \o r.calls)
            ELSE remove_children(r.files, children, i + 1, ord, calls \o m.calls \o r.calls)


\* ---------------------------------------------------------------- state
VARIABLES
    files,      \* the backend's table: path -> node
    readers,    \* the open readers (open_file's results still held)
    writers,    \* the open writers (create_file's / append_file's results still held)
    last,       \* the latest call: operation, handle path, value returned, backend calls
    created,    \* history: every path that has ever been in the table
    run         \* per thread: the composite operation it is in the middle of

vars == <<files, readers, writers, last, created, run>>

\* The threads, and a thread that is in no composite operation.
Actors == 1..NumActors
Idle == [pc |-> "idle"]

\* `readers` and `writers` are sequences, in the order of opening.
\* A reader: the snapshot it reads, and (history) the file's bytes when it was opened.
Reader(path, snap, at_open) == [path |-> path, snap |-> snap, at_open |-> at_open]
\* A writer: its cursor, whether the buffer it is bound to is still the one in the
\* table, and (history) the bytes the file held when the writer was opened (`base`,
\* empty for create_file), the bytes written through it since (`wrote`), and whether
\* nothing but this writer has touched the file since then (`clean`).
Writer(path, pos, base) ==
    [path |-> path, pos |-> pos, attached |-> TRUE, clean |-> TRUE,
     base |-> base, wrote |-> <<>>]

Orders == { o \in [1..Cardinality(Segs) -> Segs] : \A i, j \in 1..Cardinality(Segs) : o[i] = o[j] => i = j }
Bufs == { <<b>> : b \in Bytes }
\* What the tree specification writes into a file it creates or appends to.
TreeBufs == {<<>>, <<1>>}
\* The handles the reader/writer specification works on.
FileHandles == { join(RootPath, Chr("a")) }

\* The record of a call; for a composite operation `again` tells that the call
\* before it was the same operation on the same handle.
CompositeOps == {"create_dir_all", "remove_dir_all"}
Done(op, path, res, calls, again) ==
    [op |-> op, path |-> path, res |-> res, calls |-> calls, again |-> again]

Init ==
    /\ files = EmptyFS
    /\ readers = <<>>
    /\ writers = <<>>
    /\ last = Done("create", RootPath, Ok(Unit), <<>>, FALSE)
    /\ created = {RootPath}
    /\ run = [a \in Actors |-> Idle]

Fits(fs) ==
    /\ Cardinality(DOMAIN fs) - 1 <= MaxNodes
    /\ \A q \in DOMAIN fs : Len(fs[q].content) <= MaxLen
CanOpen == Len(readers) + Len(writers) < MaxOpen
Remove(seq, k) == [i \in 1..(Len(seq) - 1) |-> IF i < k THEN seq[i] ELSE seq[i + 1]]

\* A writer whose file another call has touched: its history no longer tells the content.
Disturbed(w) == [w EXCEPT !.clean = FALSE, !.base = <<>>, !.wrote = <<>>]
\* The writers after the table went from `before` to `after`: a writer of an entry that
\* is gone stays bound to the buffer that left the table.
Detach(ws, before, after) ==
    [k \in DOMAIN ws |->
        IF ws[k].path \in DOMAIN before /\ ws[k].path \notin DOMAIN after
        THEN [Disturbed(ws[k]) EXCEPT !.attached = FALSE]
        ELSE ws[k]]
\* The writers after some other call changed the content of `path`.
Touch(ws, path) ==
    [k \in DOMAIN ws |-> IF ws[k].path = path THEN Disturbed(ws[k]) ELSE ws[k]]

\* A reader that reads the table's buffer instead of its own copy.
read_to_end_shared(fs, r) == IF IsFile(fs, r.path) THEN fs[r.path].content ELSE <<>>

\* What a reader's read-to-end returns.
read_to_end(fs, r) == r.snap

\* The state change every table-changing handle operation shares.
Finish(op, path, o) ==
    /\ Fits(o.files)
    /\ files' = o.files
    /\ last' = Done(op, path, o.res, o.calls,
                   op \in CompositeOps /\ last.op = op /\ last.path = path)

ReadDir(p, ord) ==
    /\ Finish("read_dir", p, read_dir(files, p, ord))
    /\ UNCHANGED <<readers, writers>>

CreateDir(p) ==
    /\ Finish("create_dir", p, create_dir(files, p))
    /\ UNCHANGED <<readers, writers>>

CreateDirAll(p) ==
    /\ Finish("create_dir_all", p, create_dir_all(files, p))
    /\ UNCHANGED <<readers, writers>>

\* open_file, the reader kept open in a free slot.
OpenFile(p) ==
    LET o == open_file(files, p)
    IN  /\ o.res.tag = "Ok" => CanOpen
        /\ Finish("open_file", p, o)
        /\ readers' = IF o.res.tag = "Ok"
                      THEN Append(readers, Reader(p, o.res.val, files[p].content))
                      ELSE readers
        /\ UNCHANGED writers

\* create_file, the writer kept open in a free slot.
CreateFile(p) ==
    LET o == create_file(files, p)
    IN  /\ o.res.tag = "Ok" => CanOpen
        /\ Finish("create_file", p, o)
        /\ writers' = IF o.res.tag = "Ok"
                      THEN Append(Touch(writers, p), Writer(p, o.res.val, <<>>))
                      ELSE writers
        /\ UNCHANGED readers

\* append_file, the writer kept open in a free slot.
AppendFile(p) ==
    LET o == append_file(files, p)
    IN  /\ o.res.tag = "Ok" => CanOpen
        /\ Finish("append_file", p, o)
        /\ writers' = IF o.res.tag = "Ok"
                      THEN Append(writers, Writer(p, o.res.val, o.files[p].content))
                      ELSE writers
        /\ UNCHANGED readers

\* The same three calls with the handle they return used at once and dropped:
\* p.open_file() read to the end, and p.create_file() / p.append_file() with
\* one write of `buf` (none when buf is empty).
OpenFileRead(p) ==
    /\ Finish("open_file", p, open_file(files, p))
    /\ UNCHANGED <<readers, writers>>

Written(o, p, buf) ==
    IF o.res.tag = "Ok" /\ buf # <<>>
    THEN [o EXCEPT !.files = [o.files EXCEPT ![p].content = write_at(@, o.res.val, buf)]]
    ELSE o

CreateFileWrite(p, buf) ==
    /\ Finish("create_file", p, Written(create_file(files, p), p, buf))
    /\ writers' = Touch(writers, p)
    /\ UNCHANGED readers

AppendFileWrite(p, buf) ==
    /\ Finish("append_file", p, Written(append_file(files, p), p, buf))
    /\ writers' = IF buf # <<>> THEN Touch(writers, p) ELSE writers
    /\ UNCHANGED readers

RemoveFile(p) ==
    LET o == remove_file(files, p)
    IN  /\ Finish("remove_file", p, o)
        /\ writers' = Detach(writers, files, o.files)
        /\ UNCHANGED readers

RemoveDir(p) ==
    /\ Finish("remove_dir", p, remove_dir(files, p))
    /\ UNCHANGED <<readers, writers>>

RemoveDirAll(p, ord) ==
    LET o == remove_dir_all(files, p, ord)
    IN  /\ Finish("remove_dir_all", p, o)
        /\ writers' = Detach(writers, files, o.files)
        /\ UNCHANGED readers

Metadata(p) ==
    /\ Finish("metadata", p, metadata(files, p))
    /\ UNCHANGED <<readers, writers>>

Exists(p) ==
    LET o == exists(files, p)
    IN  /\ Finish("exists", p, Outcome(o.files, Ok(o.res), o.calls))
        /\ UNCHANGED <<readers, writers>>

\* One write call on an open writer: the bytes are in the shared buffer when it returns.
Write(k, buf) ==
    LET w == writers[k]
    IN  /\ w.pos + Len(buf) <= MaxLen
        /\ files' = IF w.attached
                    THEN [files EXCEPT ![w.path].content = write_at(@, w.pos, buf)]
                    ELSE files
        /\ writers' = [IF w.attached THEN Touch(writers, w.path) ELSE writers EXCEPT ![k] =
                          [w EXCEPT !.pos = w.pos + Len(buf),
                                    !.wrote = IF w.clean THEN w.wrote \o buf ELSE <<>>]]
        /\ last' = Done("write", w.path, Ok(Len(buf)), <<>>, FALSE)
        /\ UNCHANGED readers

\* Reading an open reader to the end.
Read(k) ==
    /\ last' = Done("read", readers[k].path, Ok(read_to_end(files, readers[k])), <<>>, FALSE)
    /\ UNCHANGED <<files, readers, writers>>

DropReader(k) ==
    /\ readers' = Remove(readers, k)
    /\ last' = Done("drop", readers[k].path, Ok(Unit), <<>>, FALSE)
    /\ UNCHANGED <<files, writers>>

DropWriter(k) ==
    /\ writers' = Remove(writers, k)
    /\ last' = Done("drop", writers[k].path, Ok(Unit), <<>>, FALSE)
    /\ UNCHANGED <<files, readers>>

\* The history of created paths is kept (Remember) only by the specification
\* that needs it.
Forget == UNCHANGED <<created, run>>
Remember ==
    /\ created' = created \cup DOMAIN files'
    /\ Cardinality(created') - 1 <= MaxNodes
    /\ UNCHANGED run

\* The handle layer over a directory tree, every reader and writer dropped by the
\* statement that opened it.
Next ==
    \/ \E p \in Handles, ord \in Orders : ReadDir(p, ord) /\ Forget
    \/ \E p \in Handles : CreateDir(p) /\ Forget
    \/ \E p \in Handles : CreateDirAll(p) /\ Forget
    \/ \E p \in Handles : OpenFileRead(p) /\ Forget
    \/ \E p \in Handles, buf \in TreeBufs : CreateFileWrite(p, buf) /\ Forget
    \/ \E p \in Handles : AppendFileWrite(p, <<>>) /\ Forget
    \/ \E p \in Handles : RemoveFile(p) /\ Forget
    \/ \E p \in Handles : RemoveDir(p) /\ Forget
    \/ \E p \in Handles, ord \in Orders : RemoveDirAll(p, ord) /\ Forget
    \/ \E p \in Handles : Metadata(p) /\ Forget
    \/ \E p \in Handles : Exists(p) /\ Forget

Spec == Init /\ [][Next]_vars

\* The same operations with the history of created paths kept.
NextHist ==
    \/ \E p \in Handles : CreateDir(p) /\ Remember
    \/ \E p \in Handles : CreateDirAll(p) /\ Remember
    \/ \E p \in Handles : OpenFileRead(p) /\ Remember
    \/ \E p \in Handles : CreateFileWrite(p, <<>>) /\ Remember
    \/ \E p \in Handles : AppendFileWrite(p, <<>>) /\ Remember
    \/ \E p \in Handles : RemoveFile(p) /\ Remember
    \/ \E p \in Handles : RemoveDir(p) /\ Remember
    \/ \E p \in Handles, ord \in Orders : RemoveDirAll(p, ord) /\ Remember
    \/ \E p \in Handles : Metadata(p) /\ Remember
    \/ \E p \in Handles : Exists(p) /\ Remember

SpecHist == Init /\ [][NextHist]_vars

\* Readers and writers held open across calls, on one file of the root directory.
NextIO ==
    \/ \E p \in FileHandles : OpenFile(p) /\ Forget
    \/ \E p \in FileHandles : CreateFile(p) /\ Forget
    \/ \E p \in FileHandles : AppendFile(p) /\ Forget
    \/ \E p \in FileHandles : RemoveFile(p) /\ Forget
    \/ \E k \in DOMAIN writers, buf \in Bufs : Write(k, buf) /\ Forget
    \/ \E k \in DOMAIN readers : Read(k) /\ Forget
    \/ \E k \in DOMAIN readers : DropReader(k) /\ Forget
    \/ \E k \in DOMAIN writers : DropWriter(k) /\ Forget

SpecIO == Init /\ [][NextIO]_vars


\* ------------------------------------------- composite operations, call by call
\* A composite operation is a sequence of backend calls; other threads' calls may
\* fall between any two of them.  `run[a]` is where thread `a` stands in its
\* operation: for create_dir_all the loop's `pos` and whether exists(directory)
\* has just returned false; for remove_dir_all the stack of its recursive calls,
\* each with the children its listing gave and the index of the child it is at.
\* `log` is the calls issued so far with what each returned.
Logged(prim, path, res) == [prim |-> prim, path |-> path, res |-> res]
Frame(path) == [path |-> path, stage |-> "exists", children |-> <<>>, i |-> 1]
Started(op, path) ==
    [pc |-> "run", op |-> op, path |-> path, pos |-> 1, checked |-> FALSE,
     stack |-> IF op = "remove_dir_all" THEN <<Frame(path)>> ELSE <<>>,
     log |-> <<>>, res |-> Ok(Unit)]
\* The operation has returned `res` to its caller (or panicked).
Finished(r, res) == [r EXCEPT !.pc = "done", !.res = res, !.stack = <<>>]

\* create_dir_all taking a create_dir that failed on a directory that is there by now
\* for a success.
cda_step_masking(fs, r) ==
    IF r.pos > Len(r.path) THEN [files |-> fs, run |-> Finished(r, Panic)]
    ELSE
    LET it == find(SliceFrom(r.path, r.pos), SLASH)
        end == IF it >= 0 THEN it + r.pos ELSE Len(r.path)
        directory == Slice(r.path, 0, end)
        Advance(q) == IF end = Len(r.path) THEN Finished(q, Ok(Unit))
                    ELSE [q EXCEPT !.pos = end + 1, !.checked = FALSE]
    IN  IF ~r.checked
        THEN LET found == vfs_exists(fs, directory)
                 q == [r EXCEPT !.log = Append(@, Logged("exists", directory, Ok(found)))]
             IN [files |-> fs,
                 run |-> IF found THEN Advance(q) ELSE [q EXCEPT !.checked = TRUE]]
        ELSE LET b == vfs_create_dir(fs, directory)
                 q == [r EXCEPT !.log = Append(@, Logged("create_dir", directory, b.res))]
             IN [files |-> b.files,
                 run |-> IF b.res.tag = "Err" /\ ~IsDir(fs, directory)
                         THEN Finished(q, b.res) ELSE Advance(q)]

\* create_dir_all with the test of exists inverted.
cda_step_inverted(fs, r) ==
    IF r.pos > Len(r.path) THEN [files |-> fs, run |-> Finished(r, Panic)]
    ELSE
    LET it == find(SliceFrom(r.path, r.pos), SLASH)
        end == IF it >= 0 THEN it + r.pos ELSE Len(r.path)
        directory == Slice(r.path, 0, end)
        Advance(q) == IF end = Len(r.path) THEN Finished(q, Ok(Unit))
                    ELSE [q EXCEPT !.pos = end + 1, !.checked = FALSE]
    IN  IF ~r.checked
        THEN LET found == vfs_exists(fs, directory)
                 q == [r EXCEPT !.log = Append(@, Logged("exists", directory, Ok(found)))]
             IN [files |-> fs,
                 run |-> IF ~found THEN Advance(q) ELSE [q EXCEPT !.checked = TRUE]]
        ELSE LET b == vfs_create_dir(fs, directory)
                 q == [r EXCEPT !.log = Append(@, Logged("create_dir", directory, b.res))]
             IN [files |-> b.files,
                 run |-> IF b.res.tag = "Err" THEN Finished(q, b.res) ELSE Advance(q)]

\* create_dir_all returning success at the first prefix it finds existing.
cda_step_stops_at_existing(fs, r) ==
    IF r.pos > Len(r.path) THEN [files |-> fs, run |-> Finished(r, Panic)]
    ELSE
    LET it == find(SliceFrom(r.path, r.pos), SLASH)
        end == IF it >= 0 THEN it + r.pos ELSE Len(r.path)
        directory == Slice(r.path, 0, end)
        Advance(q) == IF end = Len(r.path) THEN Finished(q, Ok(Unit))
                    ELSE [q EXCEPT !.pos = end + 1, !.checked = FALSE]
    IN  IF ~r.checked
        THEN LET found == vfs_exists(fs, directory)
                 q == [r EXCEPT !.log = Append(@, Logged("exists", directory, Ok(found)))]
             IN [files |-> fs,
                 run |-> IF found THEN Finished(q, Ok(Unit)) ELSE [q EXCEPT !.checked = TRUE]]
        ELSE LET b == vfs_create_dir(fs, directory)
                 q == [r EXCEPT !.log = Append(@, Logged("create_dir", directory, b.res))]
             IN [files |-> b.files,
                 run |-> IF b.res.tag = "Err" THEN Finished(q, b.res) ELSE Advance(q)]

\* create_dir_all with `pos = end` in the place of `pos = end + 1`.
cda_step_no_progress(fs, r) ==
    IF r.pos > Len(r.path) THEN [files |-> fs, run |-> Finished(r, Panic)]
    ELSE
    LET it == find(SliceFrom(r.path, r.pos), SLASH)
        end == IF it >= 0 THEN it + r.pos ELSE Len(r.path)
        directory == Slice(r.path, 0, end)
        Advance(q) == IF end = Len(r.path) THEN Finished(q, Ok(Unit))
                    ELSE [q EXCEPT !.pos = end, !.checked = FALSE]
    IN  IF ~r.checked
        THEN LET found == vfs_exists(fs, directory)
                 q == [r EXCEPT !.log = Append(@, Logged("exists", directory, Ok(found)))]
             IN [files |-> fs,
                 run |-> IF found THEN Advance(q) ELSE [q EXCEPT !.checked = TRUE]]
        ELSE LET b == vfs_create_dir(fs, directory)
                 q == [r EXCEPT !.log = Append(@, Logged("create_dir", directory, b.res))]
             IN [files |-> b.files,
                 run |-> IF b.res.tag = "Err" THEN Finished(q, b.res) ELSE Advance(q)]

\* VPath::create_dir_all: the next backend call of the loop.
cda_step(fs, r) ==
    IF r.pos > Len(r.path) THEN [files |-> fs, run |-> Finished(r, Panic)]
    ELSE
    LET it == find(SliceFrom(r.path, r.pos), SLASH)
        end == IF it >= 0 THEN it + r.pos ELSE Len(r.path)
        directory == Slice(r.path, 0, end)
        Advance(q) == IF end = Len(r.path) THEN Finished(q, Ok(Unit))
                    ELSE [q EXCEPT !.pos = end + 1, !.checked = FALSE]
    IN  IF ~r.checked
        THEN LET found == vfs_exists(fs, directory)
                 q == [r EXCEPT !.log = Append(@, Logged("exists", directory, Ok(found)))]
             IN [files |-> fs,
                 run |-> IF found THEN Advance(q) ELSE [q EXCEPT !.checked = TRUE]]
        ELSE LET b == vfs_create_dir(fs, directory)
                 q == [r EXCEPT !.log = Append(@, Logged("create_dir", directory, b.res))]
             IN [files |-> b.files,
                 run |-> IF b.res.tag = "Err" THEN Finished(q, b.res) ELSE Advance(q)]

\* remove_dir_all that does not go into a child directory: the loop passes it by.
rda_step_flat(fs, r, ord) ==
    LET n == Len(r.stack)
        f == r.stack[n]
        Top(q, g) == [q EXCEPT !.stack = [r.stack EXCEPT ![n] = g]]
        \* the innermost call returns Ok(()): its caller's loop takes the next child
        Returned(q) ==
            IF n = 1 THEN Finished(q, Ok(Unit))
            ELSE [q EXCEPT !.stack = [SubSeq(r.stack, 1, n - 1) EXCEPT
                                         ![n - 1].i = @ + 1, ![n - 1].stage = "loop"]]
        Noted(o) == [r EXCEPT !.log = Append(@, Logged(o.calls[1].prim, o.calls[1].path, o.res))]
    IN  CASE f.stage = "exists" ->
                LET o == exists(fs, f.path)
                    q == [r EXCEPT !.log = Append(@, Logged("exists", f.path, Ok(o.res)))]
                IN [files |-> fs,
                    run |-> IF ~o.res THEN Returned(q)
                            ELSE Top(q, [f EXCEPT !.stage = "read_dir"])]
          [] f.stage = "read_dir" ->
                LET o == read_dir(fs, f.path, ord)
                IN [files |-> fs,
                    run |-> IF o.res.tag = "Err" THEN Finished(Noted(o), o.res)
                            ELSE Top(Noted(o), [f EXCEPT !.stage = "loop",
                                                         !.children = o.res.val, !.i = 1])]
          [] f.stage = "loop" /\ f.i > Len(f.children) ->
                LET o == remove_dir(fs, f.path)
                IN [files |-> o.files,
                    run |-> IF o.res.tag = "Err" THEN Finished(Noted(o), o.res)
                            ELSE Returned(Noted(o))]
          [] f.stage = "loop" /\ f.i <= Len(f.children) ->
                LET o == metadata(fs, f.children[f.i])
                IN [files |-> fs,
                    run |-> IF o.res.tag = "Err" THEN Finished(Noted(o), o.res)
                            ELSE IF o.res.val.file_type = "File"
                            THEN Top(Noted(o), [f EXCEPT !.stage = "remove_file"])
                            ELSE Top(Noted(o), [f EXCEPT !.i = @ + 1])]
          [] f.stage = "remove_file" ->
                LET o == remove_file(fs, f.children[f.i])
                IN [files |-> o.files,
                    run |-> IF o.res.tag = "Err" THEN Finished(Noted(o), o.res)
                            ELSE Top(Noted(o), [f EXCEPT !.stage = "loop", !.i = @ + 1])]

\* remove_dir_all that passes by a child whose metadata cannot be read, instead of
\* returning the error.
rda_step_lenient(fs, r, ord) ==
    LET n == Len(r.stack)
        f == r.stack[n]
        Top(q, g) == [q EXCEPT !.stack = [r.stack EXCEPT ![n] = g]]
        \* the innermost call returns Ok(()): its caller's loop takes the next child
        Returned(q) ==
            IF n = 1 THEN Finished(q, Ok(Unit))
            ELSE [q EXCEPT !.stack = [SubSeq(r.stack, 1, n - 1) EXCEPT
                                         ![n - 1].i = @ + 1, ![n - 1].stage = "loop"]]
        Noted(o) == [r EXCEPT !.log = Append(@, Logged(o.calls[1].prim, o.calls[1].path, o.res))]
    IN  CASE f.stage = "exists" ->
                LET o == exists(fs, f.path)
                    q == [r EXCEPT !.log = Append(@, Logged("exists", f.path, Ok(o.res)))]
                IN [files |-> fs,
                    run |-> IF ~o.res THEN Returned(q)
                            ELSE Top(q, [f EXCEPT !.stage = "read_dir"])]
          [] f.stage = "read_dir" ->
                LET o == read_dir(fs, f.path, ord)
                IN [files |-> fs,
                    run |-> IF o.res.tag = "Err" THEN Finished(Noted(o), o.res)
                            ELSE Top(Noted(o), [f EXCEPT !.stage = "loop",
                                                         !.children = o.res.val, !.i = 1])]
          [] f.stage = "loop" /\ f.i > Len(f.children) ->
                LET o == remove_dir(fs, f.path)
                IN [files |-> o.files,
                    run |-> IF o.res.tag = "Err" THEN Finished(Noted(o), o.res)
                            ELSE Returned(Noted(o))]
          [] f.stage = "loop" /\ f.i <= Len(f.children) ->
                LET o == metadata(fs, f.children[f.i])
                IN [files |-> fs,
                    run |-> IF o.res.tag = "Err" THEN Top(Noted(o), [f EXCEPT !.i = @ + 1])
                            ELSE IF o.res.val.file_type = "File"
                            THEN Top(Noted(o), [f EXCEPT !.stage = "remove_file"])
                            ELSE [Noted(o) EXCEPT !.stack = Append(r.stack, Frame(f.children[f.i]))]]
          [] f.stage = "remove_file" ->
                LET o == remove_file(fs, f.children[f.i])
                IN [files |-> o.files,
                    run |-> IF o.res.tag = "Err" THEN Finished(Noted(o), o.res)
                            ELSE Top(Noted(o), [f EXCEPT !.stage = "loop", !.i = @ + 1])]

\* VPath::remove_dir_all: the next backend call of the innermost recursive call.
rda_step(fs, r, ord) ==
    LET n == Len(r.stack)
        f == r.stack[n]
        Top(q, g) == [q EXCEPT !.stack = [r.stack EXCEPT ![n] = g]]
        \* the innermost call returns Ok(()): its caller's loop takes the next child
        Returned(q) ==
            IF n = 1 THEN Finished(q, Ok(Unit))
            ELSE [q EXCEPT !.stack = [SubSeq(r.stack, 1, n - 1) EXCEPT
                                         ![n - 1].i = @ + 1, ![n - 1].stage = "loop"]]
        Noted(o) == [r EXCEPT !.log = Append(@, Logged(o.calls[1].prim, o.calls[1].path, o.res))]
    IN  CASE f.stage = "exists" ->
                LET o == exists(fs, f.path)
                    q == [r EXCEPT !.log = Append(@, Logged("exists", f.path, Ok(o.res)))]
                IN [files |-> fs,
                    run |-> IF ~o.res THEN Returned(q)
                            ELSE Top(q, [f EXCEPT !.stage = "read_dir"])]
          [] f.stage = "read_dir" ->
                LET o == read_dir(fs, f.path, ord)
                IN [files |-> fs,
                    run |-> IF o.res.tag = "Err" THEN Finished(Noted(o), o.res)
                            ELSE Top(Noted(o), [f EXCEPT !.stage = "loop",
                                                         !.children = o.res.val, !.i = 1])]
          [] f.stage = "loop" /\ f.i > Len(f.children) ->
                LET o == remove_dir(fs, f.path)
                IN [files |-> o.files,
                    run |-> IF o.res.tag = "Err" THEN Finished(Noted(o), o.res)
                            ELSE Returned(Noted(o))]
          [] f.stage = "loop" /\ f.i <= Len(f.children) ->
                LET o == metadata(fs, f.children[f.i])
                IN [files |-> fs,
                    run |-> IF o.res.tag = "Err" THEN Finished(Noted(o), o.res)
                            ELSE IF o.res.val.file_type = "File"
                            THEN Top(Noted(o), [f EXCEPT !.stage = "remove_file"])
                            ELSE [Noted(o) EXCEPT !.stack = Append(r.stack, Frame(f.children[f.i]))]]
          [] f.stage = "remove_file" ->
                LET o == remove_file(fs, f.children[f.i])
                IN [files |-> o.files,
                    run |-> IF o.res.tag = "Err" THEN Finished(Noted(o), o.res)
                            ELSE Top(Noted(o), [f EXCEPT !.stage = "loop", !.i = @ + 1])]

\* The state other than `files` and `run`.
rest == <<readers, writers, last, created>>

\* How many entries create_dir_all on `path` can add to the table.
Missing(fs, path) == Cardinality(Prefixes(path) \ DOMAIN fs)

\* Thread a calls p.create_dir_all() / p.remove_dir_all().
StartCreateDirAll(a, p) ==
    /\ run[a] = Idle
    /\ Cardinality(DOMAIN files) - 1 + Missing(files, p) <= MaxNodes
    /\ run' = [run EXCEPT ![a] = Started("create_dir_all", p)]
    /\ UNCHANGED <<files, rest>>

StartRemoveDirAll(a, p) ==
    /\ run[a] = Idle
    /\ run' = [run EXCEPT ![a] = Started("remove_dir_all", p)]
    /\ UNCHANGED <<files, rest>>

\* One backend call of thread a's operation.
StepCreateDirAll(a) ==
    /\ run[a].pc = "run" /\ run[a].op = "create_dir_all"
    /\ LET s == cda_step(files, run[a])
       IN  /\ Fits(s.files)
           /\ files' = s.files
           /\ run' = [run EXCEPT ![a] = s.run]
    /\ UNCHANGED rest

StepRemoveDirAll(a, ord) ==
    /\ run[a].pc = "run" /\ run[a].op = "remove_dir_all"
    /\ LET s == rda_step(files, run[a], ord)
       IN  /\ files' = s.files
           /\ run' = [run EXCEPT ![a] = s.run]
    /\ UNCHANGED rest

\* The caller has its result.
Return(a) ==
    /\ run[a].pc = "done"
    /\ run' = [run EXCEPT ![a] = Idle]
    /\ UNCHANGED <<files, rest>>

\* A call of another thread that changes the tree: a primitive operation on a handle,
\* its result not looked at.
Other_(o) ==
    /\ \A a \in Actors : run[a].pc # "done"
    /\ o.res.tag = "Ok"
    /\ Fits(o.files)
    /\ files' = o.files
    /\ UNCHANGED <<run, rest>>
OtherCreateDir(p) == Other_(create_dir(files, p))
OtherCreateFile(p) == Other_(create_file(files, p))
OtherRemoveFile(p) == Other_(remove_file(files, p))
OtherRemoveDir(p) == Other_(remove_dir(files, p))

\* The handles of the call-by-call specifications: the root, "/a", "/b", "/a/a",
\* "/a/b" and "/a/a/a".
StepHandles == { p \in Handles : Len(p) <= 2 \/ p[2] = "a" }

\* One thread in a composite operation, other threads' calls between its calls.
NextStep ==
    \/ \E p \in StepHandles : StartCreateDirAll(1, p)
    \/ \E p \in StepHandles : StartRemoveDirAll(1, p)
    \/ StepCreateDirAll(1)
    \/ \E ord \in Orders : StepRemoveDirAll(1, ord)
    \/ Return(1)
    \/ \E p \in StepHandles : OtherCreateDir(p)
    \/ \E p \in StepHandles : OtherCreateFile(p)
    \/ \E p \in StepHandles : OtherRemoveFile(p)
    \/ \E p \in StepHandles : OtherRemoveDir(p)

SpecStep == Init /\ [][NextStep]_vars

\* Every thread calls create_dir_all on the same handle at the same time, on a tree
\* built before by primitive calls; nothing else touches the tree until all have
\* returned.
AllIdle == \A a \in Actors : run[a] = Idle
AllDone == \A a \in Actors : run[a].pc = "done"

StartAll(p) ==
    /\ AllIdle
    /\ Cardinality(DOMAIN files) - 1 + Missing(files, p) <= MaxNodes
    /\ run' = [a \in Actors |-> Started("create_dir_all", p)]
    /\ UNCHANGED <<files, rest>>

ReturnAll ==
    /\ AllDone
    /\ run' = [a \in Actors |-> Idle]
    /\ UNCHANGED <<files, rest>>

NextPair ==
    \/ \E p \in StepHandles : AllIdle /\ OtherCreateDir(p)
    \/ \E p \in StepHandles : AllIdle /\ OtherCreateFile(p)
    \/ \E p \in StepHandles : AllIdle /\ OtherRemoveFile(p)
    \/ \E p \in StepHandles : AllIdle /\ OtherRemoveDir(p)
    \/ \E p \in StepHandles : StartAll(p)
    \/ \E a \in Actors : StepCreateDirAll(a)
    \/ ReturnAll

SpecPair == Init /\ [][NextPair]_vars

\* One thread alone: primitive calls, and composite operations that it runs call by
\* call to their end, nothing in between.  Its handles include paths with an empty
\* segment: "/" (join("")), "/a/" (join("a/")), "//a" (join("/a")), "/a//b".
OddPaths == { <<>>, <<"a", SLASH>>, <<SLASH, "a">>, <<"a", SLASH, SLASH, "b">> }
SoloHandles == StepHandles \cup { join(RootPath, r) : r \in OddPaths }

NextSolo ==
    \/ \E p \in SoloHandles : AllIdle /\ OtherCreateDir(p)
    \/ \E p \in SoloHandles : AllIdle /\ OtherCreateFile(p)
    \/ \E p \in SoloHandles : AllIdle /\ OtherRemoveFile(p)
    \/ \E p \in SoloHandles : AllIdle /\ OtherRemoveDir(p)
    \/ \E p \in SoloHandles : StartCreateDirAll(1, p)
    \/ \E p \in SoloHandles : StartRemoveDirAll(1, p)
    \/ StepCreateDirAll(1)
    \/ \E ord \in Orders : StepRemoveDirAll(1, ord)
    \/ Return(1)

\* A call runs to completion on its thread: the thread takes its next step.
SpecSolo ==
    /\ Init /\ [][NextSolo]_vars
    /\ WF_vars(StepCreateDirAll(1))
    /\ WF_vars(\E ord \in Orders : StepRemoveDirAll(1, ord))


\* ================================================================ claims
\* How many calls of one primitive an operation issued.
Issued(calls, prim) == Cardinality({ i \in 1..Len(calls) : calls[i].prim = prim })
\* The table with `path` and everything below it taken out.
Outside(fs, path) == [q \in { r \in DOMAIN fs : ~Below(path, r) } |-> fs[q]]

\* C1: create_dir_all on any handle, the root handle included, returns success, and
\* called a second time in a row on the same handle it returns success again, leaves
\* the tree as the first call left it and issues no create_dir.
C1_TwiceSucceedsAnyHandle ==
    [][ last'.op = "create_dir_all" =>
            /\ last'.res.tag = "Ok"
            /\ last'.again => files' = files /\ Issued(last'.calls, "create_dir") = 0 ]_vars

\* C2: from a tree in which every existing prefix of p is a directory, create_dir_all
\* on root.join(p) succeeds; afterwards every prefix of p exists, metadata(p) says
\* Directory, and every entry that was there before is as it was.
C2_CreatesEveryPrefix ==
    [][ (/\ last'.op = "create_dir_all"
         /\ last'.path # RootPath
         /\ \A q \in Prefixes(last'.path) : vfs_exists(files, q) => IsDir(files, q)) =>
            /\ last'.res = Ok(Unit)
            /\ \A q \in Prefixes(last'.path) : exists(files', q).res
            /\ LET m == metadata(files', last'.path).res
               IN m.tag = "Ok" /\ m.val.file_type = "Directory"
            /\ \A q \in DOMAIN files : q \in DOMAIN files' /\ files'[q] = files[q] ]_vars

C2_Witness ==
    /\ last.op = "create_dir_all" /\ last.res = Ok(Unit)
    /\ Issued(last.calls, "create_dir") >= 2
    /\ \E q \in DOMAIN files : IsFile(files, q) /\ files[q].content # <<>>

\* C3 (as stated): remove_dir_all on any existing directory succeeds, afterwards
\* neither it nor anything below it exists, and everything outside its subtree is as
\* it was.
C3_RemovesAnyDirectory ==
    [][ (last'.op = "remove_dir_all" /\ IsDir(files, last'.path)) =>
            /\ last'.res = Ok(Unit)
            /\ files' = Outside(files, last'.path) ]_vars

\* C3 (amended): the same for every existing directory other than the root.
C3_RemovesSubtreeOnly ==
    [][ (last'.op = "remove_dir_all" /\ IsDir(files, last'.path)
         /\ last'.path # RootPath) =>
            /\ last'.res = Ok(Unit)
            /\ ~exists(files', last'.path).res
            /\ files' = Outside(files, last'.path) ]_vars

C3_Witness ==
    /\ last.op = "remove_dir_all" /\ last.path # RootPath /\ last.res = Ok(Unit)
    /\ Issued(last.calls, "remove_file") >= 1
    /\ Issued(last.calls, "remove_dir") >= 1
    /\ \E q \in DOMAIN files : IsFile(files, q) /\ files[q].content # <<>>

\* C4: remove_dir_all on a path that does not exist returns success, issues
\* exists(p) and nothing else, and leaves the tree as it was.
C4_MissingPathIsNoOp ==
    [][ (last'.op = "remove_dir_all" /\ ~vfs_exists(files, last'.path)) =>
            /\ last'.res = Ok(Unit)
            /\ last'.calls = <<Call("exists", last'.path)>>
            /\ files' = files ]_vars

C4_Witness ==
    /\ last.op = "remove_dir_all" /\ last.res = Ok(Unit)
    /\ ~vfs_exists(files, last.path)
    /\ last.calls = <<Call("exists", last.path)>>
    /\ ~vfs_exists(files, Parent(last.path))
    /\ Cardinality(DOMAIN files) >= 2


\* The primitive operations of a handle, each a single backend call with a context.
PrimOps == {"read_dir", "create_dir", "open_file", "create_file", "append_file",
            "remove_file", "remove_dir", "metadata"}
\* What the backend returns to the primitive `op` called on `p`.
BackendResult(op, fs, p, ord) ==
    CASE op = "read_dir" -> vfs_read_dir(fs, p, ord)
      [] op = "create_dir" -> vfs_create_dir(fs, p).res
      [] op = "open_file" -> vfs_open_file(fs, p)
      [] op = "create_file" -> vfs_create_file(fs, p).res
      [] op = "append_file" -> vfs_append_file(fs, p).res
      [] op = "remove_file" -> vfs_remove_file(fs, p).res
      [] op = "remove_dir" -> vfs_remove_dir(fs, p).res
      [] op = "metadata" -> vfs_metadata(fs, p)
ContextOf(op, p) ==
    CASE op = "read_dir" -> ReadDirContext(p)
      [] op = "create_dir" -> CreateDirContext(p)
      [] op = "open_file" -> OpenFileContext(p)
      [] op = "create_file" -> CreateFileContext(p)
      [] op = "append_file" -> AppendFileContext(p)
      [] op = "remove_file" -> RemoveFileContext(p)
      [] op = "remove_dir" -> RemoveDirContext(p)
      [] op = "metadata" -> MetadataContext(p)
\* The backend's value as the handle returns it: a listing's names come back as the
\* handles parent/name, every other value as it is.
Passed(op, p, v) == IF op = "read_dir" THEN MapSeq(v, LAMBDA n : join(p, n)) ELSE v

\* C5: a primitive handle operation returns the backend's success as it is, with no
\* context; it returns the backend's error E inside exactly one WithContext frame
\* whose cause is E, so that the innermost cause keeps its kind and the message reads
\* "{context}, cause: {cause}".
C5_OneContextFrame ==
    [][ last'.op \in PrimOps =>
            \E ord \in Orders :
                LET b == BackendResult(last'.op, files, last'.path, ord)
                    r == last'.res
                IN  /\ b.tag = "Ok" => r = Ok(Passed(last'.op, last'.path, b.val))
                    /\ b.tag = "Err" =>
                        /\ r.tag = "Err"
                        /\ r.err.kind = "WithContext"
                        /\ r.err.cause = b.err
                        /\ Frames(r.err) = 1
                        /\ Innermost(r.err).kind = b.err.kind
                        /\ Display(r.err) =
                              ContextOf(last'.op, last'.path) \o <<", cause: ">> \o Display(b.err) ]_vars

C5_Witness ==
    /\ last.op = "open_file" /\ last.res.tag = "Err"
    /\ IsDir(files, last.path) /\ last.path # RootPath
    /\ Frames(last.res.err) = 1
    /\ Innermost(last.res.err) = FileNotFound(last.path)

\* C6: every error a handle operation returns, the composite operations' included,
\* is one context frame that names a primitive operation and its path, around the
\* backend's error.
C6_EveryErrorHasOneFrame ==
    last.res.tag = "Err" =>
        /\ Frames(last.res.err) = 1
        /\ \E i \in 1..Len(last.calls) :
              /\ last.calls[i].prim \in PrimOps
              /\ last.res.err.context = ContextOf(last.calls[i].prim, last.calls[i].path)

\* C7: for a path that has never been created, exists returns false, and open_file,
\* metadata, remove_file and remove_dir fail with FileNotFound as the innermost cause
\* and leave the tree as it was.
ProbeOps == {"open_file", "metadata", "remove_file", "remove_dir"}
C7_NeverCreatedIsNotFound ==
    /\ [](\A p \in Handles \ created : ~exists(files, p).res)
    /\ [][ last'.path \notin created =>
            /\ last'.op = "exists" => last'.res = Ok(FALSE)
            /\ last'.op \in ProbeOps =>
                /\ last'.res.tag = "Err"
                /\ Innermost(last'.res.err).kind = "FileNotFound"
                /\ files' = files ]_vars

C7_Witness ==
    /\ last.op = "remove_dir" /\ last.path \notin created
    /\ last.res.tag = "Err" /\ Innermost(last.res.err) = FileNotFound(last.path)
    /\ Parent(last.path) \in created /\ ~vfs_exists(files, Parent(last.path))

\* C8: as long as a reader is open it reads the bytes the file held when open_file
\* returned it, whatever has been written to the file or done to it since.
C8_SnapshotOnOpen ==
    \A k \in DOMAIN readers :
        read_to_end(files, readers[k]) = readers[k].at_open

C8_Witness ==
    /\ last.op = "read"
    /\ \E k \in DOMAIN readers :
          /\ readers[k].path = last.path
          /\ last.res.val = readers[k].at_open
          /\ readers[k].at_open # <<>>
          /\ IsFile(files, last.path)
          /\ files[last.path].content # readers[k].at_open

\* C9: a reader opened on p after create_file(p) and writes of the bytes B reads B;
\* opened after append_file(p) on a file holding A and writes of B it reads A then B
\* (no other call having touched p's content in between).
C9_RoundTrip ==
    (last.op = "open_file" /\ last.res.tag = "Ok") =>
        \A k \in DOMAIN writers :
            (writers[k].path = last.path /\ writers[k].clean) =>
                last.res.val = writers[k].base \o writers[k].wrote

C9_Witness ==
    /\ last.op = "open_file" /\ last.res.tag = "Ok"
    /\ \E k \in DOMAIN writers :
          /\ writers[k].path = last.path /\ writers[k].clean
          /\ writers[k].base # <<>> /\ writers[k].wrote # <<>>
          /\ writers[k].base # writers[k].wrote
          /\ last.res.val = writers[k].base \o writers[k].wrote

\* C10: the root is in the tree, as a directory, in every reachable state.
C10_RootAlwaysExists ==
    /\ exists(files, RootPath).res
    /\ metadata(files, RootPath).res.val.file_type = "Directory"

C10_Witness ==
    /\ last.op = "remove_dir_all" /\ last.path = RootPath
    /\ last.res.tag = "Err"
    /\ Issued(last.calls, "remove_dir") >= 2 /\ Issued(last.calls, "remove_file") >= 1
    /\ DOMAIN files = {RootPath}


\* ---------------------------------------------- claims on the call-by-call model
\* The prefix create_dir_all's loop is at.
Current(r) ==
    LET it == find(SliceFrom(r.path, r.pos), SLASH)
    IN Slice(r.path, 0, IF it >= 0 THEN it + r.pos ELSE Len(r.path))
InCreateDirAll(r) == r.pc # "idle" /\ r.op = "create_dir_all"
InRemoveDirAll(r) == r.pc # "idle" /\ r.op = "remove_dir_all"
LastCall(r) == r.log[Len(r.log)]
\* The log entry e is the call prim(path), and it returned success.
Is(e, prim, path) == e.prim = prim /\ e.path = path
Succeeded(e, prim, path) == Is(e, prim, path) /\ e.res.tag = "Ok"
\* The log entry e is exists(path) returning `found`.
Found(e, path, found) == Is(e, "exists", path) /\ e.res.val = found

\* C11: when another thread has created the prefix q between create_dir_all's
\* exists(q), which returned false, and its create_dir(q), that create_dir fails, and
\* create_dir_all returns the failure at once: no retry, no success, no later prefix.
C11_RaceIsNotMasked ==
    [][ \A a \in Actors :
          (/\ InCreateDirAll(run[a]) /\ run[a].pc = "run" /\ run[a].checked
           /\ run'[a] # run[a]
           /\ vfs_exists(files, Current(run[a]))) =>
              /\ Found(LastCall(run[a]), Current(run[a]), FALSE)
              /\ run'[a].pc = "done"
              /\ run'[a].res.tag = "Err"
              /\ run'[a].res = vfs_create_dir(files, Current(run[a])).res
              /\ run'[a].log = Append(run[a].log,
                                      Logged("create_dir", Current(run[a]), run'[a].res))
              /\ files' = files ]_vars

C11_Witness ==
    \E a \in Actors :
        /\ InCreateDirAll(run[a]) /\ run[a].pc = "done" /\ run[a].res.tag = "Err"
        /\ LastCall(run[a]).prim = "create_dir"
        /\ IsDir(files, LastCall(run[a]).path)
        /\ LastCall(run[a]).path # run[a].path
        /\ ~vfs_exists(files, run[a].path)

\* C12 (as stated): when create_dir_all has returned, every prefix of its path has
\* had exactly one exists call, and a create_dir call exactly when that exists
\* returned false.
C12_EveryPrefixChecked ==
    \A a \in Actors :
        (InCreateDirAll(run[a]) /\ run[a].pc = "done") =>
            \A q \in Prefixes(run[a].path) :
                LET log == run[a].log
                    asked == { i \in 1..Len(log) : Is(log[i], "exists", q) }
                    made == { i \in 1..Len(log) : Is(log[i], "create_dir", q) }
                IN  /\ Cardinality(asked) = 1
                    /\ Cardinality(made) <= 1
                    /\ made # {} <=> \E i \in asked : log[i].res.val = FALSE

\* C12 (amended): create_dir_all issues its calls prefix by prefix, shortest first,
\* as far as it gets (to the last prefix when it returns success): every call
\* is exists or create_dir on a prefix of the path; a prefix is looked at only after
\* every shorter one; no prefix gets more than one exists or more than one create_dir;
\* create_dir(q) comes right after an exists(q) that returned false, and after every
\* such exists; and when the operation returns success every prefix has had its exists.
C12_PrefixesLeftToRight ==
    \A a \in Actors :
        InCreateDirAll(run[a]) =>
            LET r == run[a]
                log == r.log
                N == Len(log)
            IN  /\ \A i \in 1..N : /\ log[i].prim \in {"exists", "create_dir"}
                                   /\ log[i].path \in Prefixes(r.path)
                /\ \A i, j \in 1..N : i < j => Len(log[i].path) <= Len(log[j].path)
                /\ \A j \in 1..N : \A q \in Prefixes(r.path) :
                      Len(q) < Len(log[j].path) =>
                          \E i \in 1..(j - 1) : log[i].prim = "exists" /\ log[i].path = q
                /\ \A i, j \in 1..N :
                      (i # j /\ log[i].prim = log[j].prim) => log[i].path # log[j].path
                /\ \A j \in 1..N :
                      log[j].prim = "create_dir" =>
                          j > 1 /\ Found(log[j - 1], log[j].path, FALSE)
                /\ \A j \in 1..N :
                      Found(log[j], log[j].path, FALSE) =>
                          IF j < N
                          THEN log[j + 1].prim = "create_dir" /\ log[j + 1].path = log[j].path
                          ELSE r.pc = "run" /\ r.checked
                /\ (r.pc = "done" /\ r.res = Ok(Unit)) =>
                      \A q \in Prefixes(r.path) :
                          \E i \in 1..N : log[i].prim = "exists" /\ log[i].path = q

C12_Witness ==
    \E a \in Actors :
        /\ InCreateDirAll(run[a]) /\ run[a].pc = "done" /\ run[a].res = Ok(Unit)
        /\ Cardinality(Prefixes(run[a].path)) = 3
        /\ Len(run[a].log) = 5
        /\ run[a].log[1].res = Ok(TRUE)

\* The child c of a listing logged at i has been dealt with before the call at j:
\* its metadata was read and then, for a file, remove_file(c) succeeded, and for a
\* directory the recursive remove_dir_all(c) ran to its end (exists(c) false, or its
\* remove_dir(c) succeeded).
Handled(log, c, i, j) ==
    \E k \in (i + 1)..(j - 2) :
        /\ log[k].prim = "metadata" /\ log[k].path = c /\ log[k].res.tag = "Ok"
        /\ IF log[k].res.val.file_type = "File"
           THEN Succeeded(log[k + 1], "remove_file", c)
           ELSE \/ Found(log[k + 1], c, FALSE)
                \/ /\ Found(log[k + 1], c, TRUE)
                   /\ \E m \in (k + 2)..(j - 1) : Succeeded(log[m], "remove_dir", c)

\* C13: remove_dir_all issues remove_dir(d) only after read_dir(d) and after every
\* child of that listing has been dealt with successfully, and at most once for a
\* directory.
C13_PostOrder ==
    \A a \in Actors :
        InRemoveDirAll(run[a]) =>
            LET log == run[a].log
            IN  \A j \in 1..Len(log) :
                    log[j].prim = "remove_dir" =>
                        /\ \E i \in 1..(j - 1) :
                              /\ log[i].prim = "read_dir" /\ log[i].path = log[j].path
                              /\ log[i].res.tag = "Ok"
                              /\ \A n \in 1..Len(log[i].res.val) :
                                    Handled(log, log[i].res.val[n], i, j)
                        /\ \A k \in 1..Len(log) :
                              (k # j /\ log[k].prim = "remove_dir") => log[k].path # log[j].path

C13_Witness ==
    \E a \in Actors :
        /\ InRemoveDirAll(run[a]) /\ run[a].pc = "done" /\ run[a].res = Ok(Unit)
        /\ Cardinality({ j \in 1..Len(run[a].log) : run[a].log[j].prim = "remove_dir" }) >= 2
        /\ \E j \in 1..Len(run[a].log) : run[a].log[j].prim = "remove_file"

\* C14: in a composite operation a call that failed is the last call: the operation
\* has returned, with that call's error, and issues nothing after it (no sibling, no
\* enclosing remove_dir); the failing call and the return leave the tree as the calls
\* before them left it.
C14_FailFast ==
    /\ [](\A a \in Actors :
            run[a].pc # "idle" =>
                LET log == run[a].log
                IN  /\ \A i \in 1..(Len(log) - 1) : log[i].res.tag = "Ok"
                    /\ (Len(log) > 0 /\ LastCall(run[a]).res.tag = "Err") =>
                          run[a].pc = "done" /\ run[a].res = LastCall(run[a]).res
                    /\ (run[a].pc = "done" /\ run[a].res.tag = "Err") =>
                          Len(log) > 0 /\ LastCall(run[a]).res = run[a].res)
    /\ [][ \A a \in Actors :
             (run[a].pc = "run" /\ run'[a].pc = "done" /\ run'[a].res.tag = "Err") =>
                 /\ files' = files
                 /\ Len(run'[a].log) = Len(run[a].log) + 1 ]_vars

C14_Witness ==
    \E a \in Actors :
        /\ InRemoveDirAll(run[a]) /\ run[a].pc = "done" /\ run[a].res.tag = "Err"
        /\ LastCall(run[a]).prim = "metadata"
        /\ Parent(LastCall(run[a]).path) # run[a].path
        /\ \E i \in 1..Len(run[a].log) :
              run[a].log[i].prim = "remove_file" /\ run[a].log[i].res.tag = "Ok"
        /\ IsDir(files, run[a].path)
        /\ IsDir(files, Parent(LastCall(run[a]).path))

\* C18: whatever other threads do and however it ends, remove_dir_all(p) issues
\* remove_file and remove_dir only on p and on paths below p (p followed by '/'), and
\* none of its calls removes or changes an entry outside p's subtree.
Removals == {"remove_file", "remove_dir"}
C18_StaysInSubtree ==
    /\ [](\A a \in Actors :
            InRemoveDirAll(run[a]) =>
                \A i \in 1..Len(run[a].log) :
                    run[a].log[i].prim \in Removals =>
                        \/ run[a].log[i].path = run[a].path
                        \/ /\ Len(run[a].log[i].path) > Len(run[a].path)
                           /\ SubSeq(run[a].log[i].path, 1, Len(run[a].path) + 1)
                                  = run[a].path \o <<SLASH>>)
    /\ [][ \A a \in Actors :
             (InRemoveDirAll(run[a]) /\ run[a].pc = "run" /\ run'[a] # run[a]) =>
                 Outside(files', run[a].path) = Outside(files, run[a].path) ]_vars

C18_Witness ==
    \E a \in Actors :
        /\ InRemoveDirAll(run[a]) /\ run[a].pc = "done" /\ run[a].path # RootPath
        /\ \E i \in 1..Len(run[a].log) :
              /\ run[a].log[i].prim \in Removals /\ run[a].log[i].res.tag = "Ok"
              /\ run[a].log[i].path # run[a].path
              /\ join(RootPath, Name(run[a].log[i].path)) \in DOMAIN files
              /\ ~Below(run[a].path, join(RootPath, Name(run[a].log[i].path)))

\* ------------------------------------------ claims on whole composite operations
\* C15: create_dir_all on the root handle (the empty path) returns success and leaves
\* the tree as it was.
C15_RootIsNoOp ==
    [][ (last'.op = "create_dir_all" /\ last'.path = RootPath) =>
            /\ last'.res.tag = "Ok"
            /\ files' = files ]_vars

\* C16: when create_dir_all(p) returns success, from whatever tree, p exists and
\* metadata(p) says Directory.
C16_SuccessMeansDirectory ==
    (last.op = "create_dir_all" /\ last.res.tag = "Ok") =>
        /\ exists(files, last.path).res
        /\ LET m == metadata(files, last.path).res
           IN m.tag = "Ok" /\ m.val.file_type = "Directory"

\* C19: remove_dir_all on a path that is a file returns an error: it issues exists(p)
\* and read_dir(p) and nothing else, returns read_dir's FileNotFound inside the
\* read-directory context, and leaves the file and its content as they were.
C19_FileIsNotRemoved ==
    [][ (last'.op = "remove_dir_all" /\ IsFile(files, last'.path)) =>
            /\ last'.calls = <<Call("exists", last'.path), Call("read_dir", last'.path)>>
            /\ last'.res.tag = "Err"
            /\ last'.res.err = WithContext(ReadDirContext(last'.path), FileNotFound(last'.path))
            /\ Issued(last'.calls, "remove_file") + Issued(last'.calls, "remove_dir") = 0
            /\ files' = files ]_vars

C19_Witness ==
    /\ last.op = "remove_dir_all" /\ last.res.tag = "Err"
    /\ IsFile(files, last.path) /\ files[last.path].content # <<>>
    /\ Innermost(last.res.err) = FileNotFound(last.path)
    /\ last.calls = <<Call("exists", last.path), Call("read_dir", last.path)>>

\* C17: when all threads have returned from create_dir_all on the same handle
\* root.join(p), run at the same time from a tree in which every existing prefix of p
\* was a directory, at least one of them has returned success and p and all its
\* prefixes are directories.  (While the calls run nothing but their create_dir adds
\* to the tree and nothing is removed, so a prefix is a file at the end exactly when
\* it was one at the start.)
C17_OneCallSucceeds ==
    (/\ AllDone
     /\ \A a \in Actors : InCreateDirAll(run[a]) /\ run[a].path = run[1].path
     /\ run[1].path # RootPath
     /\ \A q \in Prefixes(run[1].path) : ~IsFile(files, q)) =>
        /\ \E a \in Actors : run[a].res = Ok(Unit)
        /\ \A q \in Prefixes(run[1].path) : IsDir(files, q)

C17_Witness ==
    /\ AllDone
    /\ Cardinality(Prefixes(run[1].path)) >= 2
    /\ \E a, b \in Actors :
          /\ run[a].res.tag = "Ok" /\ run[b].res.tag = "Err"
          /\ LastCall(run[b]).prim = "create_dir"
          /\ \E i \in 1..Len(run[a].log) : Succeeded(run[a].log[i], "create_dir", run[a].path)
    /\ \A q \in Prefixes(run[1].path) : IsDir(files, q)

\* The loop iterations create_dir_all has begun (each begins with its exists call),
\* and the '/' characters of a path at index 1 or later.
Iterations(r) == Cardinality({ i \in 1..Len(r.log) : r.log[i].prim = "exists" })
Slashes(path) == Cardinality({ i \in 2..Len(path) : path[i] = SLASH })
\* No two calls of the same primitive on the same path.
NoCallTwice(log) ==
    \A i, j \in 1..Len(log) :
        (i # j /\ log[i].prim = log[j].prim) => log[i].path # log[j].path

\* C20 (as stated): create_dir_all on a non-empty path has returned after exactly one
\* plus the number of '/' at index 1 or later iterations.
C20_IterationCount ==
    \A a \in Actors :
        (InCreateDirAll(run[a]) /\ run[a].pc = "done" /\ run[a].path # RootPath) =>
            Iterations(run[a]) = 1 + Slashes(run[a].path)

\* C20 (amended): with no other thread at work both composite operations return.
\* create_dir_all on a non-empty path returns after at most one plus the number of
\* '/' at index 1 or later iterations, and after exactly that many when it returns
\* success; remove_dir_all issues no call twice on the same path.
C20_Terminates ==
    /\ [](\A a \in Actors :
            (InCreateDirAll(run[a]) /\ run[a].path # RootPath) =>
                /\ Iterations(run[a]) <= 1 + Slashes(run[a].path)
                /\ (run[a].pc = "done" /\ run[a].res.tag = "Ok") =>
                      Iterations(run[a]) = 1 + Slashes(run[a].path))
    /\ [](\A a \in Actors : InRemoveDirAll(run[a]) => NoCallTwice(run[a].log))
    /\ \A a \in Actors : (run[a].pc = "run") ~> (run[a].pc = "done")

C20_Witness ==
    \E a \in Actors :
        /\ InCreateDirAll(run[a]) /\ run[a].pc = "done" /\ run[a].res.tag = "Ok"
        /\ run[a].path = <<SLASH, "a", SLASH, SLASH, "b">>
        /\ Iterations(run[a]) = 3

====
